---- MODULE Spec2Model ----
(***************************************************************************)
(* Model of tbone/data/models.py: the ModelMeta schema registry, the Model *)
(* instance store (import_data / validate / export_data) and the           *)
(* ModelSerializer pipeline (to_data / to_python).                         *)
(*                                                                         *)
(* An OrderedDict is a sequence of entries [name, ...] with distinct names.*)
(* A field object lives in `heap` and is referred to by its index, so that *)
(* copying (deepcopy) and sharing (aliasing) are different things.         *)
(***************************************************************************)
EXTENDS Naturals, Sequences, FiniteSets, TLC

VARIABLES classes, heap, inst, ser, call

vars == <<classes, heap, inst, ser, call>>

-----------------------------------------------------------------------------
(* Bounds *)

MaxTypes == 3       \* classes of the chain of the schema specification
MaxClasses == 2     \* classes defined while an instance is in use
MaxLocal == 2       \* members declared in one class body
MaxBases == 2       \* direct bases of one class
MaxPayload == 2     \* keys of one imported mapping

Names == {"a", "b", "c"}

\* field._projection: True (always), None (never), anything else (if-present)
Projections == {"True", "None", "False"}

ExportKinds == {"async", "sync"}

None == "None"

\* raw inputs and native values of the modelled field kind (an integer-like
\* field): "i0" is the falsy native 0, "i1" a truthy native, "s1" the raw
\* text of i1, "bad" a raw text that cannot be converted; "p0"/"p1" are the
\* data primitives of i0/i1.
Natives == {"i0", "i1"}
Raws == {"s1", "bad"}
Values == {None} \cup Natives \cup Raws

-----------------------------------------------------------------------------
(* Sequence and OrderedDict helpers *)

Range(s) == {s[i] : i \in 1..Len(s)}

Reverse(s) == [i \in 1..Len(s) |-> s[Len(s) + 1 - i]]

OdKeys(od) == [i \in 1..Len(od) |-> od[i].name]

OdHas(od, k) == \E i \in 1..Len(od) : od[i].name = k

OdIndex(od, k) == CHOOSE i \in 1..Len(od) : od[i].name = k

\* od[k] = entry: an existing key keeps its position, a new key is appended
OdSet(od, entry) ==
    IF OdHas(od, entry.name)
    THEN [od EXCEPT ![OdIndex(od, entry.name)] = entry]
    ELSE Append(od, entry)

RECURSIVE OdUpdate(_, _)
OdUpdate(od, other) ==
    IF other = <<>> THEN od
    ELSE OdUpdate(OdSet(od, Head(other)), Tail(other))

-----------------------------------------------------------------------------
(* Schema registry: ModelMeta.__new__ *)

\* A class is [bases, attrs (the members its body declares, in order),
\* fields (_fields), exports (_exports)].
\* A class-body member: a BaseField instance (opt: its projection) or a
\* method marked with the export decorator (opt: def or async def).
FieldAttrs(names, projs) == [name : names, kind : {"field"}, opt : projs]

ExportAttrs(names, kinds) == [name : names, kind : {"export"}, opt : kinds]

\* class bodies: at most MaxLocal members with distinct names, in
\* declaration order
Bodies(attrs) ==
    {b \in UNION {[1..k -> attrs] : k \in 0..MaxLocal} :
        \A i, j \in 1..Len(b) : i # j => b[i].name # b[j].name}

RECURSIVE Ancestors(_, _)
Ancestors(cs, t) ==
    {t} \cup UNION {Ancestors(cs, cs[t].bases[i]) : i \in 1..Len(cs[t].bases)}

\* base lists Python accepts (a consistent MRO): distinct classes, none an
\* ancestor of another one listed
BaseLists(cs) ==
    {bs \in UNION {[1..k -> 1..Len(cs)] : k \in 0..MaxBases} :
        \A i, j \in 1..Len(bs) : i # j => bs[i] \notin Ancestors(cs, bs[j])}

\* a freshly constructed, unbound field object
NewField(origin, proj) ==
    [origin |-> origin, proj |-> proj, owner |-> 0, fname |-> None]

\* aliasing instead of copying: the derived class shares the base's objects
ShareFields(od, h) == [od |-> od, heap |-> h]

\* deepcopy(base._fields): every field object is copied to a fresh object
DeepCopyFields(od, h) ==
    [od   |-> [k \in 1..Len(od) |-> [name |-> od[k].name, ref |-> Len(h) + k]],
     heap |-> h \o [k \in 1..Len(od) |-> h[od[k].ref]]]

\* for base in reversed(bases): fields.update(deepcopy(base._fields));
\*                              exports.update(deepcopy(base._exports))
\* (bs is the list still to process, already reversed; a function object is
\* its own deep copy)
RECURSIVE MergeBases(_, _, _, _, _)
MergeBases(bs, cs, fields, exports, h) ==
    IF bs = <<>> THEN [fields |-> fields, exports |-> exports, heap |-> h]
    ELSE LET base == cs[Head(bs)]
             cp   == DeepCopyFields(base.fields, h)
         IN  MergeBases(Tail(bs), cs, OdUpdate(fields, cp.od),
                        OdUpdate(exports, base.exports), cp.heap)

\* od[k] = entry moving an existing key to the end
OdSetLast(od, entry) ==
    Append(SelectSeq(od, LAMBDA e : e.name # entry.name), entry)

\* a local declaration takes the last position even when its name is inherited
RECURSIVE CollectLocalLast(_, _, _, _, _)
CollectLocalLast(body, t, fields, exports, h) ==
    IF body = <<>> THEN [fields |-> fields, exports |-> exports, heap |-> h]
    ELSE LET m == Head(body)
         IN  IF m.kind = "export"
             THEN CollectLocalLast(Tail(body), t, fields,
                      OdSetLast(exports, [name |-> m.name, origin |-> t, async |-> m.opt = "async"]),
                      h)
             ELSE CollectLocalLast(Tail(body), t,
                      OdSetLast(fields, [name |-> m.name, ref |-> Len(h) + 1]),
                      exports, Append(h, NewField(t, m.opt)))

\* for key, value in attrs.items(): exports[key] = value / fields[key] = value
RECURSIVE CollectLocal(_, _, _, _, _)
CollectLocal(body, t, fields, exports, h) ==
    IF body = <<>> THEN [fields |-> fields, exports |-> exports, heap |-> h]
    ELSE LET m == Head(body)
         IN  IF m.kind = "export"
             THEN CollectLocal(Tail(body), t, fields,
                      OdSet(exports, [name |-> m.name, origin |-> t, async |-> m.opt = "async"]),
                      h)
             ELSE CollectLocal(Tail(body), t,
                      OdSet(fields, [name |-> m.name, ref |-> Len(h) + 1]),
                      exports, Append(h, NewField(t, m.opt)))

\* for name, field in fields.items(): field.add_to_class(cls, name)
\* binds every field object of the merged schema to the class and its name
AddToClass(fields, t, h) ==
    [r \in 1..Len(h) |->
        IF \E k \in 1..Len(fields) : fields[k].ref = r
        THEN [h[r] EXCEPT !.owner = t,
                          !.fname = fields[CHOOSE k \in 1..Len(fields) : fields[k].ref = r].name]
        ELSE h[r]]

\* the registry after `class <t>(*bases): <body>`
NewClass(cs, h, bases, body) ==
    LET t      == Len(cs) + 1
        merged == MergeBases(Reverse(bases), cs, <<>>, <<>>, h)
        local  == CollectLocal(body, t, merged.fields, merged.exports, merged.heap)
    IN  [classes |-> Append(cs, [bases |-> bases, attrs |-> body,
                                 fields |-> local.fields, exports |-> local.exports]),
         heap    |-> AddToClass(local.fields, t, local.heap)]

\* what a reader of class t's schema sees: names in order, each with the
\* state of the field object (or the function) bound to it
FieldSchema(cs, h, t) ==
    [k \in 1..Len(cs[t].fields) |->
        [name |-> cs[t].fields[k].name, field |-> h[cs[t].fields[k].ref]]]

ExportSchema(cs, t) == cs[t].exports

Absent == "absent"

\* a dict keyed by names: a total function, Absent marking a missing key
EmptyDict == [n \in Names |-> Absent]

NoInstance == [cls |-> 0, data |-> EmptyDict]

IdleSer == [pc |-> "idle", native |-> FALSE, i |-> 0, data |-> <<>>, exc |-> "none"]

NoCall == [op |-> "none", exc |-> "none", names |-> {},
           arg |-> [isdict |-> TRUE, map |-> EmptyDict]]

\* `class <name>(*bases): <body>`, the (limit+1)-th class is not defined
DefineType(bases, body, limit) ==
    /\ Len(classes) < limit
    /\ LET r == NewClass(classes, heap, bases, body)
       IN  /\ classes' = r.classes
           /\ heap' = r.heap
    /\ UNCHANGED <<inst, ser, call>>

\* the schema specification: a chain of up to MaxTypes classes, each derived
\* from the one before and declaring up to MaxLocal fields
SchemaAttrs == FieldAttrs(Names, {"False"})

ChainBases == IF classes = <<>> THEN <<>> ELSE <<Len(classes)>>

InitSchema ==
    /\ classes = <<>>
    /\ heap = <<>>
    /\ inst = NoInstance
    /\ ser = IdleSer
    /\ call = NoCall

NextSchema == \E body \in Bodies(SchemaAttrs) : DefineType(ChainBases, body, MaxTypes)

SpecSchema == InitSchema /\ [][NextSchema]_vars

-----------------------------------------------------------------------------
(* The Field contract (tbone/data/fields.py), for the modelled field kind *)

\* field.to_python(raw): the native value; None stays None
FieldToPython(v) == IF v = "s1" THEN "i1" ELSE v

\* field.to_data(value): the data primitive; None stays None
FieldToData(v) ==
    CASE v = "i0" -> "p0"
      [] v \in {"i1", "s1"} -> "p1"
      [] OTHER -> v

\* both conversions raise on a raw value they cannot convert
ConversionRaises(v) == v = "bad"

\* field.validate(value) raises for a required field without a value
ValidateRaises(v) == v = None

\* Python truthiness of a converted value
Truthy(v) == v \notin {None, "i0", "p0"}

-----------------------------------------------------------------------------
(* Instance store: Model.import_data / validate / export_data *)

DictKeys(d) == {n \in Names : d[n] # Absent}

\* d.get(name)
DictGet(d, n) == IF d[n] = Absent THEN None ELSE d[n]

\* d.update(other)
DictUpdate(d, other) == [n \in Names |-> IF other[n] # Absent THEN other[n] ELSE d[n]]

\* the argument of import_data: a dict, or something that is not one
Payloads ==
    {[isdict |-> TRUE, map |-> m] :
        m \in {x \in [Names -> Values \cup {Absent}] : Cardinality(DictKeys(x)) <= MaxPayload}}
    \cup {[isdict |-> FALSE, map |-> EmptyDict]}

FieldNames(fields) == {fields[k].name : k \in 1..Len(fields)}

\* Model._convert raises when a field's conversion raises
ConvertRaises(fields, d) ==
    \E k \in 1..Len(fields) : ConversionRaises(DictGet(d, fields[k].name))

\* Model._convert(data, native): one converted entry per schema field
Convert(fields, d, native) ==
    [n \in Names |->
        IF n \in FieldNames(fields)
        THEN IF native THEN FieldToPython(DictGet(d, n)) ELSE FieldToData(DictGet(d, n))
        ELSE Absent]

\* the update happens before the type check
ImportDataUnchecked(fields, d, payload) ==
    LET merged == DictUpdate(d, payload.map)
    IN  IF ~payload.isdict THEN [data |-> Convert(fields, merged, TRUE), exc |-> "ValueError"]
        ELSE IF ConvertRaises(fields, merged)
        THEN [data |-> merged, exc |-> "ConversionError"]
        ELSE [data |-> Convert(fields, merged, TRUE), exc |-> "none"]

\* the payload replaces the store instead of being merged into it
ImportDataReplace(fields, d, payload) ==
    IF ~payload.isdict THEN [data |-> d, exc |-> "ValueError"]
    ELSE IF ConvertRaises(fields, payload.map)
    THEN [data |-> payload.map, exc |-> "ConversionError"]
    ELSE [data |-> Convert(fields, payload.map, TRUE), exc |-> "none"]

\* Model.import_data(data): the store afterwards and the exception raised
ImportDataOp(fields, d, payload) ==
    IF ~payload.isdict THEN [data |-> d, exc |-> "ValueError"]
    ELSE LET merged == DictUpdate(d, payload.map)
         IN  IF ConvertRaises(fields, merged)
             THEN [data |-> merged, exc |-> "ConversionError"]
             ELSE [data |-> Convert(fields, merged, TRUE), exc |-> "none"]

\* Model._validate(data): the fields named by the error it raises ({}: none
\* raised). The loop ends at the first field whose validate raises.
ValidateOp(fields, d) ==
    LET bad == {k \in 1..Len(fields) : ValidateRaises(DictGet(d, fields[k].name))}
    IN  IF bad = {} THEN {}
        ELSE {fields[CHOOSE k \in bad : \A j \in bad : k <= j].name}

Fields(t) == classes[t].fields

NoPayload == [isdict |-> TRUE, map |-> EmptyDict]

\* what the caller of the last operation passed and got: the operation, its
\* argument, the exception raised ("none": it returned) and the fields the
\* error names
Called(op, exc, names, payload) ==
    [op |-> op, exc |-> exc, names |-> names, arg |-> payload]

Exports(t) == classes[t].exports

\* Model.__init__(data): self._data = {}; if bool(data): import_data(data),
\* validate(). An exception leaves the caller without an instance.
Construct(t, payload) ==
    /\ inst.cls = 0
    /\ t \in 1..Len(classes)
    /\ IF payload.isdict /\ DictKeys(payload.map) = {}
       THEN /\ inst' = [cls |-> t, data |-> EmptyDict]
            /\ call' = Called("init", "none", {}, payload)
       ELSE LET r == ImportDataOp(Fields(t), EmptyDict, payload)
                v == ValidateOp(Fields(t), r.data)
            IN  IF r.exc # "none"
                THEN /\ inst' = inst
                     /\ call' = Called("init", r.exc, {}, payload)
                ELSE IF v # {}
                THEN /\ inst' = inst
                     /\ call' = Called("init", "ValidationError", v, payload)
                ELSE /\ inst' = [cls |-> t, data |-> r.data]
                     /\ call' = Called("init", "none", {}, payload)
    /\ UNCHANGED <<classes, heap, ser>>

ImportData(payload) ==
    /\ inst.cls # 0
    /\ LET r == ImportDataOp(Fields(inst.cls), inst.data, payload)
       IN  /\ inst' = [inst EXCEPT !.data = r.data]
           /\ call' = Called("import_data", r.exc, {}, payload)
    /\ UNCHANGED <<classes, heap, ser>>

Validate ==
    /\ inst.cls # 0
    /\ LET v == ValidateOp(Fields(inst.cls), inst.data)
       IN  call' = Called("validate", IF v = {} THEN "none" ELSE "ValidationError",
                          v, NoPayload)
    /\ UNCHANGED <<classes, heap, inst, ser>>

ExportData ==
    /\ inst.cls # 0
    /\ \E native \in BOOLEAN :
          call' = Called(IF native THEN "export_data(True)" ELSE "export_data(False)",
                         IF ConvertRaises(Fields(inst.cls), inst.data)
                         THEN "ConversionError" ELSE "none",
                         {}, NoPayload)
    /\ UNCHANGED <<classes, heap, inst, ser>>

\* one model class with up to MaxLocal fields named a, b (c is never a field)
StoreAttrs == FieldAttrs({"a", "b"}, {"False"})

Init ==
    /\ \E body \in Bodies(StoreAttrs) :
          LET r == NewClass(<<>>, <<>>, <<>>, body)
          IN  /\ classes = r.classes
              /\ heap = r.heap
    /\ inst = NoInstance
    /\ ser = IdleSer
    /\ call = NoCall

Next ==
    \/ \E payload \in Payloads : Construct(1, payload)
    \/ \E payload \in Payloads : ImportData(payload)
    \/ Validate
    \/ ExportData

Spec == Init /\ [][Next]_vars

-----------------------------------------------------------------------------
(* Serialization: ModelSerializer.to_data / to_python / _serialize *)

\* what the export method declared under a name returns
ExportValue(fn) ==
    CASE fn.name = "a" -> "ra"
      [] fn.name = "b" -> "rb"
      [] OTHER -> "rc"

\* the loop position after step i of the field loop / the export loop
AfterField(t, i) ==
    IF i < Len(Fields(t)) THEN [pc |-> "field", i |-> i + 1]
    ELSE IF Len(Exports(t)) > 0 THEN [pc |-> "export", i |-> 1]
    ELSE [pc |-> "done", i |-> 0]

AfterExport(t, i) ==
    IF i < Len(Exports(t)) THEN [pc |-> "export", i |-> i + 1]
    ELSE [pc |-> "done", i |-> 0]

\* an included field is put in front of the fields included before it
ProjectFront(data, name, v, proj) ==
    IF Truthy(v) /\ proj # "None" THEN <<[name |-> name, val |-> v]>> \o data
    ELSE IF v = None /\ proj = "True" THEN <<[name |-> name, val |-> None]>> \o data
    ELSE data

\* if field_data and field._projection != None: data[field_name] = field_data
\* elif field_data is None and field._projection == True: data[field_name] = None
Project(data, name, v, proj) ==
    IF Truthy(v) /\ proj # "None" THEN OdSet(data, [name |-> name, val |-> v])
    ELSE IF v = None /\ proj = "True" THEN OdSet(data, [name |-> name, val |-> None])
    ELSE data

\* `await func(self)`: whether the value func(self) returns can be awaited.
\* The export wrapper is a plain function: it returns a coroutine for an
\* async def method and the method's plain return value for a def method.
Awaitable(fn) == fn.async

\* the export's value is set only when the name is not yet a key
SetDefault(data, entry) == IF OdHas(data, entry.name) THEN data ELSE Append(data, entry)

\* data[name] = value
SetItem(data, entry) == OdSet(data, entry)

\* to_data() / to_python(): _serialize starts with data = {}
Serialize(native) ==
    /\ inst.cls # 0
    /\ ser.pc \in {"idle", "done", "error"}
    /\ LET p == AfterField(inst.cls, 0)
       IN  ser' = [pc |-> p.pc, native |-> native, i |-> p.i, data |-> <<>>, exc |-> "none"]
    /\ UNCHANGED <<classes, heap, inst, call>>

ToData == Serialize(FALSE)

ToPython == Serialize(TRUE)

\* one iteration of the field loop: the awaited conversion and the
\* projection. The loop awaits each conversion before it starts the next:
\* whatever else runs while one is suspended, the iterations complete in
\* schema order.
SerializeField ==
    /\ ser.pc = "field"
    /\ LET f   == Fields(inst.cls)[ser.i]
           raw == DictGet(inst.data, f.name)
           p   == AfterField(inst.cls, ser.i)
       IN  IF ConversionRaises(raw)
           THEN ser' = [ser EXCEPT !.pc = "error", !.i = 0, !.data = <<>>,
                                   !.exc = "ConversionError"]
           ELSE ser' = [ser EXCEPT !.pc = p.pc, !.i = p.i,
                           !.data = Project(ser.data, f.name,
                                            IF ser.native THEN FieldToPython(raw) ELSE FieldToData(raw),
                                            heap[f.ref].proj)]
    /\ UNCHANGED <<classes, heap, inst, call>>

\* one iteration of the export loop: data[name] = await func(self)
SerializeExport ==
    /\ ser.pc = "export"
    /\ LET fn == Exports(inst.cls)[ser.i]
           p  == AfterExport(inst.cls, ser.i)
       IN  IF ~Awaitable(fn)
           THEN ser' = [ser EXCEPT !.pc = "error", !.i = 0, !.data = <<>>,
                                   !.exc = "TypeError"]
           ELSE ser' = [ser EXCEPT !.pc = p.pc, !.i = p.i,
                           !.data = SetItem(ser.data, [name |-> fn.name, val |-> ExportValue(fn)])]
    /\ UNCHANGED <<classes, heap, inst, call>>

\* a base model declaring fields and a model derived from it declaring
\* exports, whose names may be those of inherited fields
SerFieldAttrs == FieldAttrs({"a", "b"}, Projections)

SerExportAttrs == ExportAttrs({"a", "c"}, ExportKinds)

\* the stores one import_data leaves on a fresh instance of class t
SerPayloads == {p \in Payloads : DictKeys(p.map) \subseteq {"a", "b"}}

InitSerialize ==
    /\ \E fb \in Bodies(SerFieldAttrs), eb \in Bodies(SerExportAttrs) :
          LET base == NewClass(<<>>, <<>>, <<>>, fb)
              r    == NewClass(base.classes, base.heap, <<1>>, eb)
          IN  /\ classes = r.classes
              /\ heap = r.heap
    /\ \E payload \in SerPayloads :
          inst = [cls |-> 2, data |-> ImportDataOp(Fields(2), EmptyDict, payload).data]
    /\ ser = IdleSer
    /\ call = NoCall

NextSerialize ==
    \/ ToData
    \/ ToPython
    \/ SerializeField
    \/ SerializeExport

SpecSerialize == InitSerialize /\ [][NextSerialize]_vars

-----------------------------------------------------------------------------
(* Classes being defined while an instance is in use *)

AllAttrs == FieldAttrs({"a"}, {"True"}) \cup ExportAttrs({"a"}, {"async"})

AllPayloads == {p \in Payloads : DictKeys(p.map) \subseteq {"a"} /\ p.map["a"] \in {Absent, "s1", "bad"}}

NextAll ==
    \/ \E bases \in BaseLists(classes), body \in Bodies(AllAttrs) :
          DefineType(bases, body, MaxClasses)
    \/ \E t \in 1..Len(classes), payload \in AllPayloads : Construct(t, payload)
    \/ \E payload \in AllPayloads : ImportData(payload)
    \/ Validate
    \/ ExportData
    \/ ToData
    \/ ToPython
    \/ SerializeField
    \/ SerializeExport

SpecAll == InitSchema /\ [][NextAll]_vars

-----------------------------------------------------------------------------
(* Properties *)

InSeq(s, x) == x \in Range(s)

\* the names of the fields a class body declares, in declaration order
LocalFieldNames(t) ==
    LET fs == SelectSeq(classes[t].attrs, LAMBDA m : m.kind = "field")
    IN  [k \in 1..Len(fs) |-> fs[k].name]

\* the field names a class with at most one base inherits, in order
InheritedFieldNames(t) ==
    IF classes[t].bases = <<>> THEN <<>> ELSE OdKeys(Fields(classes[t].bases[1]))

\* the class whose body declared the field object bound to name n in class t
DeclaredIn(t, n) == heap[Fields(t)[OdIndex(Fields(t), n)].ref].origin

\* C1: the merged field schema of a class is the inherited names in their
\* inherited order followed by the new local names in local declaration
\* order; a locally redeclared inherited name has one entry, which is the
\* local definition, and every other inherited name keeps the definition the
\* base had. (A -> B -> C declaring {a}, {b}, {a, c}: C has [a, b, c] with its
\* own a.)
C1_SchemaMerge ==
    \A t \in 1..Len(classes) :
        Len(classes[t].bases) <= 1 =>
            LET inh == InheritedFieldNames(t)
                loc == LocalFieldNames(t)
                new == SelectSeq(loc, LAMBDA n : ~InSeq(inh, n))
            IN  /\ OdKeys(Fields(t)) = inh \o new
                /\ \A n \in Range(inh \o new) :
                      DeclaredIn(t, n) =
                          IF InSeq(loc, n) THEN t
                          ELSE DeclaredIn(classes[t].bases[1], n)

C1_Witness ==
    /\ Len(classes) = 3
    /\ LocalFieldNames(1) = <<"a">>
    /\ LocalFieldNames(2) = <<"b">>
    /\ LocalFieldNames(3) = <<"a", "c">>
    /\ OdKeys(Fields(3)) = <<"a", "b", "c">>
    /\ DeclaredIn(3, "a") = 3
    /\ DeclaredIn(1, "a") = 1

\* C9: the field schema and the export schema of a defined class (names,
\* order, and the state of the field object bound to each name) are the same
\* after every step as before it.
C9_SchemaImmutable ==
    [][\A t \in 1..Len(classes) :
          /\ t <= Len(classes')
          /\ FieldSchema(classes', heap', t) = FieldSchema(classes, heap, t)
          /\ ExportSchema(classes', t) = ExportSchema(classes, t)]_vars

\* a derived class that redeclares a field of its base has been defined and
\* an instance has been imported into and serialized
C9_Witness ==
    /\ Len(classes) = 2
    /\ classes[2].bases = <<1>>
    /\ LocalFieldNames(1) = <<"a">>
    /\ LocalFieldNames(2) = <<"a">>
    /\ heap[Fields(1)[1].ref].owner = 1
    /\ heap[Fields(2)[1].ref].owner = 2
    /\ inst.cls = 1
    /\ inst.data["a"] = "i1"
    /\ ser.pc = "done"

-----------------------------------------------------------------------------
(* Properties of the instance store *)

StoreFieldNames == FieldNames(Fields(inst.cls))

\* a store that holds converted values of schema fields only
WellFormed(d) ==
    /\ DictKeys(d) \subseteq StoreFieldNames
    /\ \A n \in DictKeys(d) : d[n] \in {None} \cup Natives

\* C4: an import_data that returns, on a store built by imports that
\* returned, sets every schema field the payload mentions to the payload's
\* converted value and leaves the value read for every other field as it was.
C4_PartialImportMerge ==
    [][(call'.op = "import_data" /\ call'.exc = "none" /\ WellFormed(inst.data)) =>
          \A n \in StoreFieldNames :
              inst'.data[n] =
                  IF n \in DictKeys(call'.arg.map)
                  THEN FieldToPython(call'.arg.map[n])
                  ELSE DictGet(inst.data, n)]_vars

\* import_data({a: ...}) has just overwritten a in a store that held b
C4_Witness ==
    /\ call.op = "import_data"
    /\ call.exc = "none"
    /\ DictKeys(call.arg.map) = {"a"}
    /\ call.arg.map["a"] = "s1"
    /\ OdKeys(Fields(inst.cls)) = <<"a", "b">>
    /\ inst.data["a"] = "i1"
    /\ inst.data["b"] = "i0"

\* C5 (as claimed): a failing validate() names every invalid field.
C5_ValidationAggregates ==
    (call.op = "validate" /\ call.exc = "ValidationError") =>
        call.names = {n \in StoreFieldNames : ValidateRaises(DictGet(inst.data, n))}

\* C8: import_data of something that is not a dict raises and leaves the
\* store as it was.
C8_NonMappingRejected ==
    [][(call'.op = "import_data" /\ ~call'.arg.isdict) =>
          (call'.exc = "ValueError" /\ inst' = inst)]_vars

\* a non-dict has just been rejected on a store that holds data
C8_Witness ==
    /\ call.op = "import_data"
    /\ ~call.arg.isdict
    /\ call.exc = "ValueError"
    /\ inst.data["a"] = "i1"

\* C10 (as claimed): every key of the store is a schema field and every
\* stored value is a converted value.
C10_StoreWellFormed == inst.cls # 0 => WellFormed(inst.data)

-----------------------------------------------------------------------------
(* Properties of serialization *)

SerFieldNames == OdKeys(Fields(inst.cls))

SerExportNames == OdKeys(Exports(inst.cls))

\* the converted value of field n in the serialization under way
Converted(n) ==
    IF ser.native THEN FieldToPython(DictGet(inst.data, n))
    ELSE FieldToData(DictGet(inst.data, n))

Projection(n) == heap[Fields(inst.cls)[OdIndex(Fields(inst.cls), n)].ref].proj

\* the field names the field loop puts into the mapping, in schema order
IncludedFieldNames ==
    SelectSeq(SerFieldNames,
              LAMBDA n : \/ Truthy(Converted(n)) /\ Projection(n) # "None"
                         \/ Converted(n) = None /\ Projection(n) = "True")

ValueOf(data, n) == data[OdIndex(data, n)].val

\* C2 (as claimed), for the fields that share no name with an export: with
\* a falsy converted value an if-present field is absent and an always field
\* is present with a falsy value; a never field is absent.
C2_Projection ==
    ser.pc = "done" =>
        \A n \in Range(SerFieldNames) \ Range(SerExportNames) :
            /\ Projection(n) = "None" => ~OdHas(ser.data, n)
            /\ (~Truthy(Converted(n)) /\ Projection(n) = "False") => ~OdHas(ser.data, n)
            /\ (~Truthy(Converted(n)) /\ Projection(n) = "True") =>
                   (OdHas(ser.data, n) /\ ~Truthy(ValueOf(ser.data, n)))

\* C3: the mapping to_data() / to_python() returns has every export name as
\* a key, with the export's return value, whatever the projection and the
\* value of the fields, a field of the same name included.
C3_ExportsIncluded ==
    ser.pc = "done" =>
        \A j \in 1..Len(Exports(inst.cls)) :
            /\ OdHas(ser.data, Exports(inst.cls)[j].name)
            /\ ValueOf(ser.data, Exports(inst.cls)[j].name) = ExportValue(Exports(inst.cls)[j])

\* to_data() has returned for a class with an export a and a field a that
\* holds a value and is never projected, and a second field that is included
C3_Witness ==
    /\ ser.pc = "done"
    /\ ~ser.native
    /\ SerFieldNames = <<"a", "b">>
    /\ InSeq(SerExportNames, "a")
    /\ Projection("a") = "None"
    /\ inst.data["a"] = "i1"
    /\ Projection("b") = "False"
    /\ inst.data["b"] = "i1"
    /\ OdKeys(ser.data) = <<"b", "a">>

\* C6 (as claimed): serialization does not fail at an export method, be it
\* declared def or async def.
C6_ExportsExecute == ~(ser.pc = "error" /\ ser.exc = "TypeError")

\* C7 (as claimed): the keys are the included field names in schema order
\* followed by the export names in export declaration order.
C7_FieldsThenExports ==
    ser.pc = "done" => OdKeys(ser.data) = IncludedFieldNames \o SerExportNames

\* C7 (amended): the keys are the included field names in schema order
\* followed, in export declaration order, by the export names that are not
\* names of included fields.
C7_KeyOrder ==
    ser.pc = "done" =>
        OdKeys(ser.data) =
            IncludedFieldNames
                \o SelectSeq(SerExportNames, LAMBDA n : ~InSeq(IncludedFieldNames, n))

\* to_python() has returned for fields b, a (both included) and exports c, a
C7_Witness ==
    /\ ser.pc = "done"
    /\ ser.native
    /\ SerFieldNames = <<"b", "a">>
    /\ SerExportNames = <<"c", "a">>
    /\ OdKeys(ser.data) = <<"b", "a", "c">>
    /\ ValueOf(ser.data, "a") = "ra"

====
